---- MODULE Spec2Model ----
(***************************************************************************)
(* mdxai: the Function Registry (the `ai` proxy of src/aiProxy.ts) and the *)
(* recursive outline generator (generateMDX of src/index.ts).              *)
(*                                                                         *)
(* Two specifications share this module:                                   *)
(*   Spec     - concurrent invocations ai.<name>(args) over a shared file  *)
(*              system, with a backend (generateObject) that may return    *)
(*              any value or throw;                                        *)
(*   SpecGen  - one top-level generateMDX call with its nested call.       *)
(***************************************************************************)
EXTENDS Integers, Sequences, FiniteSets, TLC

\* ------------------------------------------------------------------------
\* Bounds of the model
\* ------------------------------------------------------------------------
\* how many times somebody other than the registry creates or edits a
\* specification file during one behaviour
MaxExternal == 1
\* deepest call stack of generateMDX the model follows
MaxStack == 3
\* cap of the backend call counters of generateMDX
MaxCalls == 3
\* how many chunks the backend text stream delivers at most
MaxChunks == 2
\* how many files a batch has at most, and the largest --concurrency given
MaxFiles == 4
MaxConcurrency == 2
\* iterations of the chunking loop that are followed
MaxIterations == 6

\* the concurrent callers of the registry
Procs == {1, 2}
\* invocation names (any property key is a valid name)
Names == {"summarize"}

\* ------------------------------------------------------------------------
\* JSON values (backend responses, result fields)
\* ------------------------------------------------------------------------
Leaf(t, s) == [t |-> t, s |-> s, elems |-> <<>>]
Absent == Leaf("absent", "")
Undefined == Leaf("undefined", "")
Str(s) == Leaf("string", s)
Arr(es) == [t |-> "array", s |-> "", elems |-> es]
\* an object is the sequence of its own enumerable properties
Obj(fs) == [t |-> "object", s |-> "", elems |-> fs]
Prop(k, v) == [key |-> k, val |-> v]

\* ------------------------------------------------------------------------
\* JSON-Schema-like trees, as YAML decodes them
\* ------------------------------------------------------------------------
\* type "none": the node has no `type` key; items/props: <<>> when absent
SNode(type, items, hasProps, props) ==
    [type |-> type, items |-> items, hasProps |-> hasProps, props |-> props]
SLeaf(type) == SNode(type, <<>>, FALSE, <<>>)
SProp(k, s) == [key |-> k, schema |-> s]

ContentSchema == SNode("object", <<>>, TRUE, <<SProp("content", SLeaf("string"))>>)
ArraySchema == SNode("array", <<SLeaf("string")>>, FALSE, <<>>)
BareArraySchema == SLeaf("array")
BareObjectSchema == SLeaf("object")
StringSchema == SLeaf("string")
UntypedSchema == SNode("none", <<>>, TRUE, <<SProp("content", SLeaf("string"))>>)

\* ------------------------------------------------------------------------
\* Specification files
\* ------------------------------------------------------------------------
\* the metadata fields the registry reads; model: a JSON value,
\* system: a JSON value, schema: <<>> or <<schema tree>>
MdxData(model, system, schema) == [model |-> model, system |-> system, schema |-> schema]
File(kind, data) == [kind |-> kind, data |-> data]
NoFile == File("absent", <<>>)
\* a file opened for writing and not written yet, or written with ""
EmptyFile == File("empty", <<>>)
WithFrontmatter(d) == File("fm", <<d>>)

DefaultSystem == "You are an AI assistant helping with content generation"
\* the template of the first version of the proxy: no schema
DEFAULT_FRONTMATTER_V1 ==
    WithFrontmatter(MdxData(Str("gpt-4o"), Str(DefaultSystem), <<>>))

DEFAULT_FRONTMATTER ==
    WithFrontmatter(MdxData(Str("gpt-4o"), Str(DefaultSystem), <<ContentSchema>>))

\* files somebody else may have written
SpecFiles ==
    { DEFAULT_FRONTMATTER,
      WithFrontmatter(MdxData(Str("gpt-4o"), Str("Test system prompt"), <<ArraySchema>>)),
      WithFrontmatter(MdxData(Str("@cf/meta/llama-3"), Str("Test system prompt"), <<>>)),
      WithFrontmatter(MdxData(Absent, Str("Test system prompt"), <<ContentSchema>>)),
      WithFrontmatter(MdxData(Leaf("number", "42"), Absent, <<>>)),
      WithFrontmatter(MdxData(Str("gpt-4o"), Absent, <<StringSchema>>)),
      WithFrontmatter(MdxData(Str("gpt-4o"), Absent, <<UntypedSchema>>)),
      WithFrontmatter(MdxData(Str("gpt-4o"), Absent, <<BareArraySchema>>)),
      WithFrontmatter(MdxData(Str("gpt-4o"), Absent, <<BareObjectSchema>>)),
      File("nofm", <<>>),
      File("badfm", <<>>),
      EmptyFile }

\* ------------------------------------------------------------------------
\* Environment (process.env and the runtime)
\* ------------------------------------------------------------------------
Env(node, key, gateway, aiModel) ==
    [node |-> node, OPENAI_API_KEY |-> key, AI_GATEWAY |-> gateway, AI_MODEL |-> aiModel]
Envs == { Env(FALSE, FALSE, FALSE, ""),
          Env(TRUE, FALSE, FALSE, ""),
          Env(TRUE, TRUE, FALSE, ""),
          Env(TRUE, FALSE, TRUE, "gpt-4o") }

isNodeRuntime(e) == e.node

\* getConfig() without options, Node.js branch; in another runtime only the
\* defaults are there
getConfig(e) ==
    IF ~e.node
    THEN [apiKey |-> FALSE, baseURL |-> FALSE, defaultModel |-> "gpt-4o-mini"]
    ELSE [apiKey |-> e.OPENAI_API_KEY, baseURL |-> e.AI_GATEWAY,
          defaultModel |-> IF e.AI_MODEL # "" THEN e.AI_MODEL ELSE "gpt-4o-mini"]

\* a validation that accepts every configuration
validateConfigSkipped(config) == TRUE

\* validateConfig: TRUE when it returns, FALSE when it throws
validateConfig(config) == config.apiKey \/ config.baseURL

ConfigMessage == "No AI provider configuration found. Set OPENAI_API_KEY or AI_GATEWAY environment variable."

\* ------------------------------------------------------------------------
\* Exceptions: thrown values. isNullish: `throw undefined` / `throw null`;
\* hasMessage: the value has a string `message`
\* ------------------------------------------------------------------------
Thrown(nullish, hasMessage, msg) == [nullish |-> nullish, hasMessage |-> hasMessage, message |-> msg]
ErrorOf(msg) == Thrown(FALSE, TRUE, msg)
NullThrown == Thrown(TRUE, FALSE, "")
StringThrown == Thrown(FALSE, FALSE, "")

\* `(err as Error).message` inside a template literal: a TypeError when err
\* is null or undefined, "undefined" when err has no message
MessageThrows(err) == err.nullish
MessageOf(err) == IF err.hasMessage THEN err.message ELSE "undefined"
NullMessage == "Cannot read properties of undefined (reading 'message')"

\* ------------------------------------------------------------------------
\* Schema Translator
\* ------------------------------------------------------------------------
ZLeaf(z) == [z |-> z, item |-> <<>>, shape |-> <<>>]

RECURSIVE createZodSchema(_)
createZodSchema(schema) ==
    IF schema.type = "array" /\ schema.items # <<>>
    THEN [z |-> "array", item |-> <<createZodSchema(schema.items[1])>>, shape |-> <<>>]
    ELSE IF schema.type = "object" /\ schema.hasProps
    THEN [z |-> "object", item |-> <<>>,
          shape |-> [i \in 1..Len(schema.props) |->
                        [key |-> schema.props[i].key,
                         zod |-> createZodSchema(schema.props[i].schema)]]]
    ELSE IF schema.type = "string" THEN ZLeaf("string")
    ELSE IF schema.type = "number" THEN ZLeaf("number")
    ELSE IF schema.type = "boolean" THEN ZLeaf("boolean")
    ELSE ZLeaf("any")

\* what a translated validator accepts: z.any() everything, the scalars the
\* values of their type, z.array(item) the arrays of accepted elements,
\* z.object(shape) the objects that have an accepted value for every key
\* of the shape
RECURSIVE Accepts(_, _)
Accepts(zod, v) ==
    IF zod.z = "any" THEN TRUE
    ELSE IF zod.z = "array"
    THEN v.t = "array" /\ \A i \in 1..Len(v.elems) : Accepts(zod.item[1], v.elems[i])
    ELSE IF zod.z = "object"
    THEN /\ v.t = "object"
         /\ \A i \in 1..Len(zod.shape) :
               \E j \in 1..Len(v.elems) :
                   /\ v.elems[j].key = zod.shape[i].key
                   /\ Accepts(zod.shape[i].zod, v.elems[j].val)
    ELSE v.t = zod.z

\* zodToJsonSchema: the `type` of the JSON schema of a validator; z.any()
\* gives a schema without `type`
zodToJsonSchemaType(zod) == IF zod.z = "any" THEN "none" ELSE zod.z

\* the output-shape selector, from the translated schema (<<>>: none)
OutputOf(zodSchema) ==
    IF zodSchema # <<>> /\ zodToJsonSchemaType(zodSchema[1]) = "array" THEN "array"
    ELSE IF zodSchema # <<>> THEN "object"
    ELSE "no-schema"

\* mdxData.schema?.type, a truthy string or "none"
SchemaTypeOf(mdxData) == IF mdxData.schema = <<>> THEN "none" ELSE mdxData.schema[1].type

\* model names starting with '@cf/'
CfModels == {"@cf/meta/llama-3"}
StartsWithCf(s) == s \in CfModels


\* ------------------------------------------------------------------------
\* Backend capability generateObject: what it resolves to or throws
\* ------------------------------------------------------------------------
ItemsValue == Arr(<<Str("item1"), Str("item2")>>)
ContentValue == Obj(<<Prop("content", Str("test content"))>>)
BackendValues ==
    { Str("test content"), ItemsValue, ContentValue,
      Obj(<<Prop("title", Str("a title"))>>), Leaf("null", ""), Undefined }
BackendThrows == { ErrorOf("OpenAI API error: 500"), StringThrown, NullThrown }

\* ------------------------------------------------------------------------
\* The result object of one invocation
\* ------------------------------------------------------------------------
ResultKeys == {"content", "items", "error", "title", "0", "1"}
\* const result: AIFunctionResult = { content: '' }
InitialResult == [k \in ResultKeys |-> IF k = "content" THEN Str("") ELSE Absent]
SetKey(result, k, v) == [result EXCEPT ![k] = v]
SetError(result, msg) == SetKey(result, "error", Str(msg))

\* the own enumerable properties Object.assign copies: the fields of an
\* object, the indices of an array
IndexKey(i) == IF i = 1 THEN "0" ELSE "1"
OwnProps(v) ==
    IF v.t = "array" THEN [i \in 1..Len(v.elems) |-> Prop(IndexKey(i), v.elems[i])]
    ELSE v.elems

RECURSIVE AssignProps(_, _)
AssignProps(result, props) ==
    IF props = <<>> THEN result
    ELSE AssignProps(SetKey(result, Head(props).key, Head(props).val), Tail(props))

\* typeof v === 'object' (null included)
TypeofObject(v) == v.t \in {"object", "array", "null"}
\* String(v) of a primitive
StringOf(v) == IF v.t = "null" THEN "null" ELSE v.s

\* "Format result based on output type"
FormatResult(result, mdxData, response) ==
    IF SchemaTypeOf(mdxData) = "array" /\ response.t = "array"
    THEN SetKey(result, "items", response)
    ELSE IF TypeofObject(response) /\ response.t # "null"
    THEN AssignProps(result, OwnProps(response))
    ELSE IF response.t # "undefined"
    THEN SetKey(result, "content", Str(StringOf(response)))
    ELSE SetError(result, "Invalid response format received")

\* the two catch clauses: each builds its message from (err as Error).message
\* and so throws a TypeError itself when err is null or undefined
InnerCatch(result, err) ==
    IF MessageThrows(err)
    THEN [thrown |-> <<ErrorOf(NullMessage)>>, result |-> result]
    ELSE [thrown |-> <<>>,
          result |-> SetError(result, "Failed to generate content: " \o MessageOf(err))]

\* the outer catch of the first version of the proxy: it rethrows
OuterCatchRethrows(result, err) == [rejected |-> TRUE, result |-> result]

OuterCatch(result, err) ==
    IF MessageThrows(err)
    THEN [rejected |-> TRUE, result |-> result]
    ELSE [rejected |-> FALSE,
          result |-> SetError(result, "Failed to process AI function: " \o MessageOf(err))]

\* an exception raised inside the inner try block
ThrowInner(result, err) ==
    LET c == InnerCatch(result, err)
    IN  IF c.thrown = <<>> THEN [rejected |-> FALSE, result |-> c.result]
        ELSE OuterCatch(c.result, c.thrown[1])


\* ========================================================================
\* State
\* ========================================================================
VARIABLES
    fileSys,     \* ./ai/<name>.mdx for every name: its content, or NoFile
    env,         \* process.env and the runtime, fixed during a behaviour
    externals,   \* how many external creations/edits of a file so far
    proc,        \* the invocation each caller is in, with its locals
    called,      \* <<>> or <<the options of the top-level generateMDX call>>
    stack,       \* the generateMDX calls in progress, the innermost last
    outcome,     \* <<>> or <<how the top-level generateMDX call settled>>
    backend,     \* the doGenerate calls made so far, with their replies
    strm,        \* the backend text stream of the streaming generateMDX
    sg,          \* the streaming generateMDX call, with its locals
    file,        \* <<>> or <<what the streaming call wrote to filepath>>
    ret,         \* <<>> or <<how the streaming generateMDX call settled>>
    batch,       \* the batch of files a CLI run processes
    progress,    \* the progress values delivered to the caller's onProgress
    cli,         \* one run of the mdxai command: its position and its output
    chunker      \* the loop that cuts the matched files into chunks

regVars == <<fileSys, env, externals, proc>>
genVars == <<called, stack, outcome, backend, progress>>
strmVars == <<strm, sg, file, ret>>
batchVars == <<batch>>
cliVars == <<strmVars, batchVars, cli, chunker>>

\* the keys the prompt payload may carry, and the callers' argument objects
\* (the set of keys each supplies)
PayloadKeys == {"model", "system", "schema", "text"}
ArgSets == { {"text"}, {"system", "text"} }

MdxHasKey(mdxData, k) ==
    CASE k = "model" -> mdxData.model.t # "absent"
      [] k = "system" -> mdxData.system.t # "absent"
      [] k = "schema" -> mdxData.schema # <<>>
      [] OTHER -> FALSE

\* { ...mdxData, ...args }: for every key, who supplies its value
MergedArgs(mdxData, args) ==
    [k \in PayloadKeys |->
        IF k \in args THEN "args"
        ELSE IF MdxHasKey(mdxData, k) THEN "frontmatter"
        ELSE "absent"]

\* mdxData.system || `Generate ${fnName} based on the provided arguments`
SystemPrompt(mdxData, fnName) ==
    IF mdxData.system.t = "string" /\ mdxData.system.s # "" THEN mdxData.system.s
    ELSE "Generate " \o fnName \o " based on the provided arguments"

\* mdxData.model?.startsWith('@cf/') ? mdxData.model : config.aiConfig.defaultModel
\* (a TypeError when model is neither a string nor null/undefined)
ModelThrows(mdxData) == mdxData.model.t \notin {"absent", "string"}
SelectedModel(mdxData, config) ==
    IF mdxData.model.t = "string" /\ StartsWithCf(mdxData.model.s) THEN mdxData.model.s
    ELSE config.defaultModel

\* "Validate schema type"
SchemaTypeAccepted(schemaType) == schemaType \in {"object", "array"}

\* mdxld's parse of a file content: "data" (a metadata map), "nodata"
\* (a result without data) or "throw"
ParseOutcomes(content) ==
    IF content.kind = "fm" THEN {"data"}
    ELSE IF content.kind = "badfm" THEN {"throw"}
    ELSE {"throw", "nodata"}

IdleProc ==
    [pc |-> "idle", name |-> "", found |-> "unknown", content |-> NoFile,
     mdxData |-> <<>>, request |-> <<>>, response |-> <<>>,
     result |-> InitialResult, rejected |-> FALSE, calls |-> 0]

RegInit ==
    /\ fileSys \in [Names -> {NoFile} \cup SpecFiles]
    /\ env \in Envs
    /\ externals = 0
    /\ proc = [p \in Procs |-> IdleProc]

\* the promise of the invocation settles: resolved with `result`, or rejected
Settle(p, how) ==
    proc' = [proc EXCEPT ![p].pc = "done", ![p].result = how.result,
                         ![p].rejected = how.rejected]

Return(result) == [rejected |-> FALSE, result |-> result]

\* ai.<name>(args) is called: runs up to `await exists(filePath)`
Invoke(p, n) ==
    /\ proc[p].pc \in {"idle", "done"}
    /\ IF ~isNodeRuntime(env)
       THEN proc' = [proc EXCEPT ![p] =
                [IdleProc EXCEPT !.pc = "done", !.name = n,
                    !.result = SetError(InitialResult, "AI proxy is only supported in Node.js environment")]]
       ELSE proc' = [proc EXCEPT ![p] = [IdleProc EXCEPT !.pc = "exists", !.name = n]]
    /\ UNCHANGED <<fileSys, env, externals, genVars, cliVars>>

\* exists(filePath): fs.access resolves or rejects
Exists(p) ==
    /\ proc[p].pc = "exists"
    /\ IF fileSys[proc[p].name] = NoFile
       THEN proc' = [proc EXCEPT ![p].pc = "open", ![p].found = "absent"]
       ELSE proc' = [proc EXCEPT ![p].pc = "read", ![p].found = "present"]
    /\ UNCHANGED <<fileSys, env, externals, genVars, cliVars>>

\* writeFile, first part: mkdir, then fs.writeFile opens the path with
\* flag 'w', which creates the file or truncates it
OpenForWrite(p) ==
    /\ proc[p].pc = "open"
    /\ fileSys' = [fileSys EXCEPT ![proc[p].name] = EmptyFile]
    /\ proc' = [proc EXCEPT ![p].pc = "write"]
    /\ UNCHANGED <<env, externals, genVars, cliVars>>

\* writeFile, second part: the data is written and the file closed
WriteData(p) ==
    /\ proc[p].pc = "write"
    /\ fileSys' = [fileSys EXCEPT ![proc[p].name] = DEFAULT_FRONTMATTER]
    /\ proc' = [proc EXCEPT ![p].pc = "read"]
    /\ UNCHANGED <<env, externals, genVars, cliVars>>

\* the request of the one generateObject call
Request(mdxData, zodSchema, config, fnName, args) ==
    [model |-> SelectedModel(mdxData, config),
     output |-> OutputOf(zodSchema),
     schema |-> IF OutputOf(zodSchema) = "no-schema" THEN <<>> ELSE zodSchema,
     system |-> SystemPrompt(mdxData, fnName),
     payload |-> MergedArgs(mdxData, args)]

\* readFile resolves; parse, configuration, model, schema, up to the call of
\* generateObject. The caller's args are first used here.
ReadAndPrepare(p) ==
    /\ proc[p].pc = "read"
    /\ LET me == proc[p]
           content == fileSys[me.name]
           config == getConfig(env)
       IN  IF content = NoFile
           THEN Settle(p, OuterCatch(me.result, ErrorOf("ENOENT: no such file or directory")))
           ELSE \E parsed \in ParseOutcomes(content) :
             IF parsed = "throw"
             THEN proc' = [proc EXCEPT ![p].pc = "done", ![p].content = content,
                      ![p].result = SetError(me.result, "Failed to process AI function: Failed to parse frontmatter")]
             ELSE IF parsed = "nodata"
             THEN proc' = [proc EXCEPT ![p].pc = "done", ![p].content = content,
                      ![p].result = SetError(me.result, "Invalid MDX file: No frontmatter found")]
             ELSE LET mdxData == content.data[1]
                      schemaType == SchemaTypeOf(mdxData)
                      zodSchema == IF schemaType = "none" THEN <<>>
                                   ELSE <<createZodSchema(mdxData.schema[1])>>
                      known == [me EXCEPT !.content = content, !.mdxData = <<mdxData>>]
                      fail(how) ==
                          proc' = [proc EXCEPT ![p] = [known EXCEPT !.pc = "done",
                                      !.result = how.result, !.rejected = how.rejected]]
                  IN  IF ~validateConfig(config)
                      THEN fail(OuterCatch(me.result, ErrorOf(ConfigMessage)))
                      ELSE IF ModelThrows(mdxData)
                      THEN fail(OuterCatch(me.result, ErrorOf("mdxData.model?.startsWith is not a function")))
                      ELSE IF schemaType # "none" /\ ~SchemaTypeAccepted(schemaType)
                      THEN fail(Return(SetError(me.result,
                               "Invalid schema type: " \o schemaType \o ". Must be 'object' or 'array'")))
                      ELSE \E args \in ArgSets :
                             proc' = [proc EXCEPT ![p] = [known EXCEPT !.pc = "generate",
                                  !.calls = me.calls + 1,
                                  !.request = <<Request(mdxData, zodSchema, config, me.name, args)>>]]
    /\ UNCHANGED <<fileSys, env, externals, genVars, cliVars>>

\* generateObject resolves with genResult.object = v
BackendReturns(p, v) ==
    /\ proc[p].pc = "generate"
    /\ proc' = [proc EXCEPT ![p].pc = "done", ![p].response = <<v>>,
                  ![p].result = FormatResult(proc[p].result, proc[p].mdxData[1], v)]
    /\ UNCHANGED <<fileSys, env, externals, genVars, cliVars>>

\* generateObject rejects with err
BackendThrowsErr(p, err) ==
    /\ proc[p].pc = "generate"
    /\ Settle(p, ThrowInner(proc[p].result, err))
    /\ UNCHANGED <<fileSys, env, externals, genVars, cliVars>>

\* somebody else creates or edits a specification file
ExternalEdit(n, c) ==
    /\ externals < MaxExternal
    /\ fileSys[n] # c
    /\ externals' = externals + 1
    /\ fileSys' = [fileSys EXCEPT ![n] = c]
    /\ UNCHANGED <<env, proc, genVars, cliVars>>

\* ========================================================================
\* Recursive Outline Generator: generateMDX
\* ========================================================================
\* one doGenerate call: kind "outline" (by generateOutline) or "generate"
\* (for content); state "pending", "text" (resolved with text) or "throw"
BackendCall(kind) == [kind |-> kind, state |-> "pending", text |-> ""]
CallsOf(kind) == Cardinality({i \in 1..Len(backend) : backend[i].kind = kind})
outlineCalls == CallsOf("outline")
genCalls == CallsOf("generate")
\* the pending call is answered
Replied(log, state, text) == [log EXCEPT ![Len(log)].state = state, ![Len(log)].text = text]

\* options of a call. aiConfig: the caller passes credentials in
\* options.aiConfig; model "": no model option
Options(prompt, type, model, recursive, depth, aiConfig) ==
    [prompt |-> prompt, type |-> type, model |-> model,
     recursive |-> recursive, depth |-> depth, aiConfig |-> aiConfig]

DepthValues == {0, 1, 2}
ModelOptions == {"", "@cf/meta/llama-3"}
Types == {"Article", "TechArticle"}
TopOptions ==
    { Options("testing", t, m, r, d, a) :
        t \in Types, m \in ModelOptions, r \in BOOLEAN, d \in DepthValues, a \in BOOLEAN }

\* a getConfig that falls back to a built-in gateway URL
getConfigWithFallback(e, aiConfig, model) ==
    [apiKey |-> getConfig(e).apiKey \/ aiConfig, baseURL |-> TRUE, defaultModel |-> model]

\* getConfig({ aiConfig: { ...aiConfig, defaultModel: model } }): options
\* override the environment
getConfigWith(e, aiConfig, model) ==
    LET base == getConfig(e)
    IN  [apiKey |-> base.apiKey \/ aiConfig, baseURL |-> base.baseURL,
         defaultModel |-> model]

\* selectedModel of generateMDX and generateOutline
SelectedModelOf(model, config) ==
    LET sel == IF model # "" /\ StartsWithCf(model) THEN model ELSE config.defaultModel
    IN  IF sel = "" THEN "gpt-4o-mini" ELSE sel

\* texts the outline backend call may return, and JSON.parse of each:
\* <<>> when it throws a SyntaxError
OutlineItemValue(title) == Obj(<<Prop("title", Str(title)), Prop("description", Str("about " \o title))>>)
OutlineTexts == {"", "Here is your outline:", "[{..},{..}]", "[]", "null", "{}", "[null]"}
JSONParse(text) ==
    CASE text = "[{..},{..}]" -> <<Arr(<<OutlineItemValue("Intro"), OutlineItemValue("Details")>>)>>
      [] text = "[]" -> <<Arr(<<>>)>>
      [] text = "null" -> <<Leaf("null", "")>>
      [] text = "{}" -> <<Obj(<<>>)>>
      [] text = "[null]" -> <<Arr(<<Leaf("null", "")>>)>>
      [] OTHER -> <<>>

\* generateOutline that throws a plain Error for malformed JSON
generateOutlinePlainError(text) ==
    IF text = "" THEN [thrown |-> "Error", outline |-> <<>>]
    ELSE IF JSONParse(text) = <<>> THEN [thrown |-> "Error", outline |-> <<>>]
    ELSE [thrown |-> "", outline |-> JSONParse(text)]

\* generateOutline once doGenerate has resolved with text: the outline, or
\* the error thrown
generateOutline(text) ==
    IF text = "" THEN [thrown |-> "Error", outline |-> <<>>]
    ELSE IF JSONParse(text) = <<>> THEN [thrown |-> "ParsingError", outline |-> <<>>]
    ELSE [thrown |-> "", outline |-> JSONParse(text)]

\* `if (outline)`
Truthy(v) == v.t \notin {"null", "undefined", "absent"} /\ ~(v.t = "string" /\ v.s = "")
\* outline.map(item => `${item.title}\n${item.description || ''}`) throws a
\* TypeError when outline is not an array or an item is null
OutlineMapThrows(v) ==
    \/ v.t # "array"
    \/ \E i \in 1..Len(v.elems) : v.elems[i].t \in {"null", "undefined"}

\* texts the content backend call may return
GeneratedTexts == {"", "# Testing\nBody text", "# Other\nMore text"}

\* the content generateMDX assembles (frontmatter, then body)
NoContent == [type |-> "", model |-> "", prompt |-> ""]
MdxContent(type, selectedModel, prompt) == [type |-> type, model |-> selectedModel, prompt |-> prompt]
ContentPrompt == "Generate detailed MDX content following this outline"

\* type.toLowerCase()
ToLowerCase(type) ==
    CASE type = "Article" -> "article"
      [] type = "TechArticle" -> "techarticle"
      [] OTHER -> type

\* nodes of a document body. value: the raw content a text node wraps
Node(type, depth, text, value) == [type |-> type, depth |-> depth, text |-> text, value |-> value]
Heading(depth, text) == Node("heading", depth, text, <<>>)
Paragraph(text) == Node("paragraph", 0, text, <<>>)
TextNode(content) == Node("text", 0, "", <<content>>)

\* the body generateMDX assembles after the frontmatter, as body nodes
BodyNodes(content) ==
    << Heading(1, content.prompt),
       Paragraph("This is a generated " \o ToLowerCase(content.type) \o " about " \o content.prompt \o "."),
       Heading(2, "Overview"),
       Paragraph("Detailed information about " \o content.prompt \o "."),
       Heading(2, "Details"),
       Paragraph("More specific details about " \o content.prompt \o ".") >>

\* the heading texts of a body, and those of a generated text
RECURSIVE HeadingsOf(_)
HeadingsOf(nodes) ==
    IF nodes = <<>> THEN <<>>
    ELSE (IF Head(nodes).type = "heading" THEN <<Head(nodes).text>> ELSE <<>>)
         \o HeadingsOf(Tail(nodes))
HeadingsOfText(text) ==
    CASE text = "# Testing\nBody text" -> <<"Testing">>
      [] text = "# Other\nMore text" -> <<"Other">>
      [] OTHER -> <<>>

\* document metadata: a map from key to <<>> (key absent) or <<value>>
DataKeys == {"$type", "@type", "$context", "@context", "metadata", "title"}
Metadata(keywords, category, version, generator) ==
    [keywords |-> keywords, category |-> category,
     properties |-> [version |-> version, generator |-> generator]]
DataOf(dtype, atType, dcontext, atContext, metadata, title) ==
    [k \in DataKeys |->
        CASE k = "$type" -> dtype
          [] k = "@type" -> atType
          [] k = "$context" -> dcontext
          [] k = "@context" -> atContext
          [] k = "metadata" -> metadata
          [] OTHER -> title]

\* baseData of initializeASTData
baseData(type, selectedModel) ==
    DataOf(<<"https://schema.org/" \o type>>, <<"https://schema.org/" \o type>>,
           <<"https://schema.org">>, <<"https://schema.org">>,
           <<Metadata(<<ToLowerCase(type), "mdx", "content">>, type, "1.0.0",
                      "mdxai-" \o selectedModel)>>,
           <<>>)

\* a merge in which the existing keys win: { ...b, ...a }
SpreadKeepsExisting(a, b) == [k \in DataKeys |-> IF a[k] # <<>> THEN a[k] ELSE b[k]]

\* { ...a, ...b }
Spread(a, b) == [k \in DataKeys |-> IF b[k] # <<>> THEN b[k] ELSE a[k]]

\* parse(content, parseOptions) of mdxld/ast, a library outside the
\* repository: it throws (ok FALSE), or returns an AST whose data is
\* undefined (<<>>), the frontmatter as written, or the frontmatter with
\* the prefixed keys folded by the library, and whose children are the body
\* nodes or none. It is a function of the content: a caller that parses the
\* content of its nested call again gets the same result.
ParseThrows == [ok |-> FALSE, data |-> <<>>, children |-> <<>>]
FrontmatterData(content) ==
    DataOf(<<"https://schema.org/" \o content.type>>, <<"https://schema.org/" \o content.type>>,
           <<"https://schema.org">>, <<"https://schema.org">>,
           <<Metadata(<<ToLowerCase(content.type), "mdx", "content">>, content.type,
                      "1.0.0", "mdxai-" \o content.model)>>,
           <<content.type \o " about " \o content.prompt>>)
FoldedData(content) ==
    DataOf(<<content.type>>, <<>>, <<"schema.org">>, <<>>,
           <<Metadata(<<>>, "", "", "")>>,
           <<content.type \o " about " \o content.prompt>>)
ParseResults(content) ==
    { [ok |-> TRUE, data |-> d, children |-> c] :
        d \in {<<>>, <<FrontmatterData(content)>>, <<FoldedData(content)>>},
        c \in {<<>>, BodyNodes(content)} }
    \cup {ParseThrows}

\* the parse results of every content a call can assemble
AllParseResults ==
    UNION { ParseResults(MdxContent(t, m, q)) :
              t \in Types, m \in {"gpt-4o-mini", "@cf/meta/llama-3"},
              q \in {"testing", ContentPrompt} }

\* initializeASTData(ast, type, selectedModel, content), ast being
\* parse(content): the document returned as `ast`
initializeASTData(ast, type, selectedModel, content) ==
    [type |-> "root",
     data |-> IF ast.data # <<>> THEN Spread(ast.data[1], baseData(type, selectedModel))
              ELSE baseData(type, selectedModel),
     children |-> IF content = NoContent THEN <<>>
                  ELSE IF Len(ast.children) > 0 THEN ast.children
                  ELSE <<TextNode(content)>>]

\* ast: <<>> (undefined) or <<document>>
Failure(kind) == [status |-> "rejected", error |-> kind, content |-> NoContent,
                  ast |-> <<>>, outline |-> <<>>]
Success(content, ast, outline) ==
    [status |-> "resolved", error |-> "", content |-> content, ast |-> ast, outline |-> outline]

Frame(opts) == [pc |-> "start", opts |-> opts, outline |-> <<>>]
Top == stack[Len(stack)]
SetTop(f) == [stack EXCEPT ![Len(stack)] = f]
Pop(stk) == SubSeq(stk, 1, Len(stk) - 1)

\* a nested call that keeps the caller's recursive flag
NestedOptionsKeepFlag(opts) ==
    Options(ContentPrompt, opts.type, opts.model, opts.recursive, 1, FALSE)

\* the options of the nested call of a frame
NestedOptions(opts) ==
    Options(ContentPrompt, opts.type, opts.model, FALSE, 1, FALSE)

\* selectedModel of a call with options opts
SelectedModelFor(opts) ==
    SelectedModelOf(opts.model, getConfigWith(env, opts.aiConfig, opts.model))

\* A frame settles with r: its caller, awaiting it at "nested", continues to
\* its own end. parsed: the result of the caller's final parse of the
\* content (a failure is caught and the content returned without AST).
\* The result is the stack left and, when no caller is left, the outcome.
RECURSIVE Unwind(_, _, _)
Unwind(stk, r, parsed) ==
    IF stk = <<>> THEN [stack |-> <<>>, outcome |-> <<r>>, generate |-> FALSE]
    ELSE LET parent == stk[Len(stk)]
         IN  IF r.status = "rejected" THEN Unwind(Pop(stk), r, parsed)
             ELSE IF r.content = NoContent
             THEN [stack |-> [stk EXCEPT ![Len(stk)].pc = "generate"],
                   outcome |-> <<>>, generate |-> TRUE]
             ELSE Unwind(Pop(stk),
                         Success(r.content,
                                 IF parsed.ok
                                 THEN <<initializeASTData(parsed, parent.opts.type,
                                                          SelectedModelFor(parent.opts), r.content)>>
                                 ELSE <<>>,
                                 <<>>),
                         parsed)

\* log: the backend log after the reply that made the frame settle
Settled(u, log) ==
    /\ stack' = u.stack
    /\ outcome' = u.outcome
    /\ u.generate => Len(log) < MaxCalls
    /\ backend' = IF u.generate THEN Append(log, BackendCall("generate")) ELSE log

\* an emitProgress that reaches the user's callback from a nested call too
emitProgressInNested(n, values) == progress \o values

\* emitProgress in the call of frame n: only the user's call (frame 1) was
\* given an onProgress callback, a nested call has none
emitProgress(n, values) == IF n = 1 THEN progress \o values ELSE progress

\* what the user's call delivers when the call it awaited has settled with
\* u: 100 when it returns, 40 and 60 when it goes on to generate itself
Resumed(u, delivered) ==
    IF u.outcome # <<>> /\ u.outcome[1].status = "resolved" THEN Append(delivered, 100)
    ELSE IF u.generate /\ Len(u.stack) = 1 THEN delivered \o <<40, 60>>
    ELSE delivered

GenInit ==
    /\ called = <<>>
    /\ stack = <<>>
    /\ outcome = <<>>
    /\ backend = <<>>
    /\ progress = <<>>

\* generateMDX(options) is called by the user
Call(opts) ==
    /\ called = <<>>
    /\ called' = <<opts>>
    /\ stack' = <<Frame(opts)>>
    /\ UNCHANGED <<outcome, backend, progress>>

\* a call that starts the nested generation without awaiting the outline
StartWithoutAwait ==
    /\ stack # <<>> /\ Top.pc = "start"
    /\ Len(backend) < MaxCalls
    /\ IF Top.opts.recursive
       THEN /\ Len(stack) < MaxStack
            /\ backend' = Append(backend, BackendCall("outline"))
            /\ stack' = Append(SetTop([Top EXCEPT !.pc = "nested"]),
                               Frame(NestedOptions(Top.opts)))
       ELSE /\ backend' = Append(backend, BackendCall("generate"))
            /\ stack' = SetTop([Top EXCEPT !.pc = "generate"])
    /\ UNCHANGED <<outcome, called, progress, regVars, cliVars>>

\* the innermost call runs from its first line to its first await
Start ==
    /\ stack # <<>> /\ Top.pc = "start"
    /\ LET opts == Top.opts
           config == getConfigWith(env, opts.aiConfig, opts.model)
           outlineConfig == getConfigWith(env, FALSE, opts.model)
       IN  IF ~validateConfig(config)
           THEN /\ Settled(Unwind(Pop(stack), Failure("ConfigurationError"), ParseThrows), backend)
                /\ UNCHANGED progress
           ELSE IF opts.recursive
           THEN IF ~validateConfig(outlineConfig)
                THEN /\ Settled(Unwind(Pop(stack), Failure("ConfigurationError"), ParseThrows), backend)
                     /\ progress' = emitProgress(Len(stack), <<10, 20>>)
                ELSE /\ Len(backend) < MaxCalls
                     /\ backend' = Append(backend, BackendCall("outline"))
                     /\ stack' = SetTop([Top EXCEPT !.pc = "outline"])
                     /\ progress' = emitProgress(Len(stack), <<10, 20>>)
                     /\ UNCHANGED outcome
           ELSE /\ Len(backend) < MaxCalls
                /\ backend' = Append(backend, BackendCall("generate"))
                /\ stack' = SetTop([Top EXCEPT !.pc = "generate"])
                /\ progress' = emitProgress(Len(stack), <<10, 40, 60>>)
                /\ UNCHANGED outcome
    /\ UNCHANGED <<called, regVars, cliVars>>

\* the outline doGenerate resolves with result.text = text
OutlineReturns(text) ==
    /\ stack # <<>> /\ Top.pc = "outline"
    /\ LET got == generateOutline(text)
           log == Replied(backend, "text", text)
       IN  IF got.thrown # ""
           THEN /\ Settled(Unwind(Pop(stack), Failure(got.thrown), ParseThrows), log)
                /\ UNCHANGED progress
           ELSE IF ~Truthy(got.outline[1])
           THEN /\ Len(log) < MaxCalls
                /\ backend' = Append(log, BackendCall("generate"))
                /\ stack' = SetTop([Top EXCEPT !.pc = "generate", !.outline = got.outline])
                /\ progress' = emitProgress(Len(stack), <<40, 60>>)
                /\ UNCHANGED outcome
           ELSE IF OutlineMapThrows(got.outline[1])
           THEN /\ Settled(Unwind(Pop(stack), Failure("TypeError"), ParseThrows), log)
                /\ UNCHANGED progress
           ELSE /\ Len(stack) < MaxStack
                /\ stack' = Append(SetTop([Top EXCEPT !.pc = "nested", !.outline = got.outline]),
                                   Frame(NestedOptions(Top.opts)))
                /\ backend' = log
                /\ UNCHANGED <<outcome, progress>>
    /\ UNCHANGED <<called, regVars, cliVars>>

\* the outline doGenerate rejects
OutlineThrows ==
    /\ stack # <<>> /\ Top.pc = "outline"
    /\ Settled(Unwind(Pop(stack), Failure("APIError"), ParseThrows), Replied(backend, "throw", ""))
    /\ UNCHANGED <<called, progress, regVars, cliVars>>

\* the content doGenerate resolves with result.text = text; parsed: the
\* result of parse on the assembled content (the call is outside any try
\* here)
GenerateReturns(text, parsed) ==
    /\ stack # <<>> /\ Top.pc = "generate"
    /\ LET opts == Top.opts
           content == MdxContent(opts.type, SelectedModelFor(opts), opts.prompt)
           log == Replied(backend, "text", text)
           returned == Unwind(Pop(stack),
                              Success(content,
                                      <<initializeASTData(parsed, opts.type,
                                                          SelectedModelFor(opts), content)>>,
                                      Top.outline),
                              parsed)
       IN  /\ parsed \in ParseResults(content)
           /\ IF text = ""
              THEN /\ Settled(Unwind(Pop(stack), Failure("GenerationError"), parsed), log)
                   /\ UNCHANGED progress
              ELSE IF ~parsed.ok
              THEN /\ Settled(Unwind(Pop(stack), Failure("ParseLibError"), parsed), log)
                   /\ progress' = emitProgress(Len(stack), <<80>>)
              ELSE /\ Settled(returned, log)
                   /\ progress' = Resumed(returned, emitProgress(Len(stack), <<80>>))
    /\ UNCHANGED <<called, regVars, cliVars>>

\* the content doGenerate rejects
GenerateThrows ==
    /\ stack # <<>> /\ Top.pc = "generate"
    /\ Settled(Unwind(Pop(stack), Failure("APIError"), ParseThrows), Replied(backend, "throw", ""))
    /\ UNCHANGED <<called, progress, regVars, cliVars>>

GenNext ==
    \/ \E opts \in TopOptions : Call(opts) /\ UNCHANGED <<regVars, cliVars>>
    \/ Start
    \/ \E text \in OutlineTexts : OutlineReturns(text)
    \/ OutlineThrows
    \/ \E text \in GeneratedTexts, parsed \in AllParseResults : GenerateReturns(text, parsed)
    \/ GenerateThrows

\* ========================================================================
\* Streaming generateMDX (streamText with a stream timeout)
\* ========================================================================
\* the buffer `content`: the chunks appended before the clean-up, whether
\* the clean-up and re-serialisation ran and by which branch ("stringify":
\* parse succeeded; "fixed": the catch branch rewrote the frontmatter), and
\* the raw chunks the reader appended afterwards
Buffer(chunks, how, extra) == [chunks |-> chunks, how |-> how, extra |-> extra]
EmptyBuffer == Buffer(<<>>, "raw", <<>>)
\* content += chunk
AppendChunk(buf, chunk) ==
    IF buf.how = "raw" THEN [buf EXCEPT !.chunks = Append(@, chunk)]
    ELSE [buf EXCEPT !.extra = Append(@, chunk)]
\* content = content.replace(...).trim(), then stringify(parse(content)) or
\* the repaired frontmatter
Processed(buf, how) == Buffer(buf.chunks \o buf.extra, how, <<>>)
ProcessBranches == {"stringify", "fixed"}

IdleCall == [pc |-> "idle", filepath |-> FALSE, content |-> EmptyBuffer,
             timedOut |-> FALSE, data |-> <<>>]
NoStream == [state |-> "none", delivered |-> 0]
Rejected(kind) == [status |-> "rejected", error |-> kind, text |-> EmptyBuffer]
Returned(text) == [status |-> "resolved", error |-> "", text |-> text]

StreamInit ==
    /\ strm = NoStream
    /\ sg = IdleCall
    /\ file = <<>>
    /\ ret = <<>>

\* what follows the clean-up: the write when a filepath is given, else the
\* final results
AfterProcessing(filepath) == IF filepath THEN "mkdir" ELSE "finishReason"

\* generateMDX(options) up to the await of Promise.race
StreamCall(filepath) ==
    /\ sg.pc = "idle"
    /\ sg' = [IdleCall EXCEPT !.pc = "race", !.filepath = filepath]
    /\ strm' = [state |-> "open", delivered |-> 0]
    /\ UNCHANGED <<file, ret>>
    /\ UNCHANGED <<regVars, genVars, batchVars, cli, chunker>>

\* the stream delivers a chunk and the reader loop, which nothing cancels,
\* appends it to the buffer
ChunkArrives ==
    /\ strm.state = "open" /\ strm.delivered < MaxChunks
    /\ strm' = [strm EXCEPT !.delivered = @ + 1]
    /\ sg' = [sg EXCEPT !.content = AppendChunk(@, strm.delivered + 1)]
    /\ UNCHANGED <<file, ret>>
    /\ UNCHANGED <<regVars, genVars, batchVars, cli, chunker>>

\* the backend ends the stream, breaks it, or goes silent for good
StreamFinishes ==
    /\ strm.state = "open"
    /\ strm' = [strm EXCEPT !.state = "finished"]
    /\ UNCHANGED <<sg, file, ret>>
    /\ UNCHANGED <<regVars, genVars, batchVars, cli, chunker>>
StreamFails ==
    /\ strm.state = "open"
    /\ strm' = [strm EXCEPT !.state = "error"]
    /\ UNCHANGED <<sg, file, ret>>
    /\ UNCHANGED <<regVars, genVars, batchVars, cli, chunker>>
StreamStalls ==
    /\ strm.state = "open"
    /\ strm' = [strm EXCEPT !.state = "stalled"]
    /\ UNCHANGED <<sg, file, ret>>
    /\ UNCHANGED <<regVars, genVars, batchVars, cli, chunker>>

\* the reader loop ends first: the race resolves, the buffer is cleaned up
ReaderCompletes(how) ==
    /\ sg.pc = "race" /\ strm.state = "finished"
    /\ sg' = [sg EXCEPT !.pc = AfterProcessing(sg.filepath),
                        !.content = Processed(@, how)]
    /\ UNCHANGED <<strm, file, ret>>
    /\ UNCHANGED <<regVars, genVars, batchVars, cli, chunker>>

\* the reader loop rejects first: the error is rethrown
ReaderRejects ==
    /\ sg.pc = "race" /\ strm.state = "error"
    /\ sg' = [sg EXCEPT !.pc = "done"]
    /\ ret' = <<Rejected("StreamError")>>
    /\ UNCHANGED <<strm, file>>
    /\ UNCHANGED <<regVars, genVars, batchVars, cli, chunker>>

\* the timer rejects first (the reader loop has not settled: the stream is
\* open or silent): the catch logs a warning and goes on with the buffer as
\* it is
TimeoutFires(how) ==
    /\ sg.pc = "race" /\ strm.state \in {"open", "stalled"}
    /\ sg' = [sg EXCEPT !.pc = AfterProcessing(sg.filepath),
                        !.content = Processed(@, how),
                        !.timedOut = TRUE]
    /\ UNCHANGED <<strm, file, ret>>
    /\ UNCHANGED <<regVars, genVars, batchVars, cli, chunker>>

\* mkdir resolved: writeFile(filepath, content) is called with the buffer
\* as it is now
MkdirDone ==
    /\ sg.pc = "mkdir"
    /\ sg' = [sg EXCEPT !.pc = "writing", !.data = <<sg.content>>]
    /\ UNCHANGED <<strm, file, ret>>
    /\ UNCHANGED <<regVars, genVars, batchVars, cli, chunker>>

WriteDone ==
    /\ sg.pc = "writing"
    /\ file' = sg.data
    /\ sg' = [sg EXCEPT !.pc = "finishReason"]
    /\ UNCHANGED <<strm, ret>>
    /\ UNCHANGED <<regVars, genVars, batchVars, cli, chunker>>

\* mkdir or writeFile rejects
FsFails ==
    /\ sg.pc \in {"mkdir", "writing"}
    /\ sg' = [sg EXCEPT !.pc = "done"]
    /\ ret' = <<Rejected("FsError")>>
    /\ UNCHANGED <<strm, file>>
    /\ UNCHANGED <<regVars, genVars, batchVars, cli, chunker>>

\* await result.finishReason: settled once the stream has ended
FinishReasonResolves ==
    /\ sg.pc = "finishReason" /\ strm.state = "finished"
    /\ sg' = [sg EXCEPT !.pc = "usage"]
    /\ UNCHANGED <<strm, file, ret>>
    /\ UNCHANGED <<regVars, genVars, batchVars, cli, chunker>>
FinishReasonRejects ==
    /\ sg.pc = "finishReason" /\ strm.state = "error"
    /\ sg' = [sg EXCEPT !.pc = "done"]
    /\ ret' = <<Rejected("StreamError")>>
    /\ UNCHANGED <<strm, file>>
    /\ UNCHANGED <<regVars, genVars, batchVars, cli, chunker>>

\* await result.usage, then return { stream, text: content, ... }
UsageResolves ==
    /\ sg.pc = "usage" /\ strm.state = "finished"
    /\ sg' = [sg EXCEPT !.pc = "done"]
    /\ ret' = <<Returned(sg.content)>>
    /\ UNCHANGED <<strm, file>>
    /\ UNCHANGED <<regVars, genVars, batchVars, cli, chunker>>

\* the steps of the call itself (timers and settled promises run)
StreamProgram ==
    \/ \E how \in ProcessBranches : ReaderCompletes(how)
    \/ ReaderRejects
    \/ \E how \in ProcessBranches : TimeoutFires(how)
    \/ MkdirDone
    \/ WriteDone
    \/ FinishReasonResolves
    \/ FinishReasonRejects
    \/ UsageResolves

StreamNext ==
    \/ \E filepath \in BOOLEAN : StreamCall(filepath)
    \/ ChunkArrives
    \/ StreamFinishes
    \/ StreamFails
    \/ StreamStalls
    \/ \E how \in ProcessBranches : ReaderCompletes(how)
    \/ ReaderRejects
    \/ \E how \in ProcessBranches : TimeoutFires(how)
    \/ MkdirDone
    \/ WriteDone
    \/ FsFails
    \/ FinishReasonResolves
    \/ FinishReasonRejects
    \/ UsageResolves

\* ========================================================================
\* Batch processing of files by the CLIs
\* ========================================================================
\* mode: "chunks" (cli.tsx, slices of `concurrency` files, each file's
\* errors caught), "chunksNoCatch" (the later App of cli.tsx, no catch per
\* file), "queue" (cli/index.ts, PQueue). status: for every file "waiting",
\* "preparing" (the file is checked/read), "generating" (its generateMDX
\* call is in flight), "finishing" (the result is written), "done" or
\* "failed". chunkEnd: the last file of the slice being processed.
\* aborted: Promise.all rejected and the loop over the slices was left.
NoBatch == [mode |-> "none", concurrency |-> 0, status |-> <<>>, chunkEnd |-> 0,
            aborted |-> FALSE]
BatchModes == {"chunks", "chunksNoCatch", "queue"}
\* --concurrency: 0 stands for "not given"
ConcurrencyFlags == 0..MaxConcurrency
\* the default of the flag (meow flags of the two Apps; `|| 2` for PQueue)
DefaultConcurrency(mode) == IF mode = "chunksNoCatch" THEN 4 ELSE 2
ConcurrencyOf(mode, flag) == IF flag = 0 THEN DefaultConcurrency(mode) ELSE flag

Min(a, b) == IF a < b THEN a ELSE b
Files == 1..Len(batch.status)
Settled_(st) == st \in {"done", "failed"}
Running == {f \in Files : batch.status[f] \in {"preparing", "generating", "finishing"}}
\* the generateMDX calls in flight
InFlight == Cardinality({f \in Files : batch.status[f] = "generating"})

\* files.slice(i, i + concurrency) of the slice after file `from`: started
StartSlice(status, from, c) ==
    [f \in 1..Len(status) |->
        IF f > from /\ f <= Min(from + c, Len(status)) THEN "preparing" ELSE status[f]]

BatchInit == batch = NoBatch

\* the CLI is run on a glob that matches n files
StartBatch(mode, flag, n) ==
    /\ batch.mode = "none"
    /\ LET c == ConcurrencyOf(mode, flag)
           waiting == [f \in 1..n |-> "waiting"]
       IN  batch' = [mode |-> mode, concurrency |-> c,
                     status |-> IF mode = "queue" THEN waiting ELSE StartSlice(waiting, 0, c),
                     chunkEnd |-> IF mode = "queue" THEN 0 ELSE Min(c, n),
                     aborted |-> FALSE]
    /\ UNCHANGED <<regVars, genVars, strmVars, cli, chunker>>

\* a loop that goes on to the next slice without awaiting Promise.all
SliceSettledUnawaited == TRUE

\* await Promise.all(chunk.map(...)) has resolved: every file of the slice
\* is settled
SliceSettled ==
    \A f \in Files : f <= batch.chunkEnd => Settled_(batch.status[f])

\* for (const chunk of chunks): the next slice is started
NextSlice ==
    /\ batch.mode \in {"chunks", "chunksNoCatch"}
    /\ ~batch.aborted
    /\ batch.chunkEnd < Len(batch.status)
    /\ SliceSettled
    /\ batch' = [batch EXCEPT
                   !.status = StartSlice(@, batch.chunkEnd, batch.concurrency),
                   !.chunkEnd = Min(@ + batch.concurrency, Len(batch.status))]
    /\ UNCHANGED <<regVars, genVars, strmVars, cli, chunker>>

\* PQueue starts the next queued task when fewer than `concurrency` run
Dequeue(f) ==
    /\ batch.mode = "queue"
    /\ f \in Files /\ batch.status[f] = "waiting"
    /\ \A g \in Files : g < f => batch.status[g] # "waiting"
    /\ Cardinality(Running) < batch.concurrency
    /\ batch' = [batch EXCEPT !.status[f] = "preparing"]
    /\ UNCHANGED <<regVars, genVars, strmVars, cli, chunker>>

\* a step of the processing of file f fails: caught per file ("chunks"),
\* rethrown by processFile ("queue"), or it rejects Promise.all and the
\* loop over the slices is left ("chunksNoCatch")
FileFails(f) ==
    /\ f \in Running
    /\ batch' = [batch EXCEPT !.status[f] = "failed",
                              !.aborted = @ \/ batch.mode = "chunksNoCatch"]
    /\ UNCHANGED <<regVars, genVars, strmVars, cli, chunker>>

\* the file was found/read: generateMDX is called
Prepared_(f) ==
    /\ f \in Files /\ batch.status[f] = "preparing"
    /\ batch' = [batch EXCEPT !.status[f] = "generating"]
    /\ UNCHANGED <<regVars, genVars, strmVars, cli, chunker>>

\* generateMDX returned
Generated(f) ==
    /\ f \in Files /\ batch.status[f] = "generating"
    /\ batch' = [batch EXCEPT !.status[f] = "finishing"]
    /\ UNCHANGED <<regVars, genVars, strmVars, cli, chunker>>

\* the result is written (or the stream has ended)
Finished(f) ==
    /\ f \in Files /\ batch.status[f] = "finishing"
    /\ batch' = [batch EXCEPT !.status[f] = "done"]
    /\ UNCHANGED <<regVars, genVars, strmVars, cli, chunker>>

BatchNext ==
    \/ \E mode \in BatchModes, flag \in ConcurrencyFlags, n \in 1..MaxFiles :
          StartBatch(mode, flag, n)
    \/ NextSlice
    \/ \E f \in 1..MaxFiles : Dequeue(f)
    \/ \E f \in 1..MaxFiles : FileFails(f)
    \/ \E f \in 1..MaxFiles : Prepared_(f)
    \/ \E f \in 1..MaxFiles : Generated(f)
    \/ \E f \in 1..MaxFiles : Finished(f)

\* ========================================================================
\* Batch processing: the partition of the matched files into chunks
\* ========================================================================
\* the --concurrency flag: <<>> when it is not given, <<c>> for the number
\* c given, which may be zero or negative
ChunkFlags == {<<>>} \cup { <<c>> : c \in (0 - MaxConcurrency)..MaxConcurrency }
ChunkModes == {"chunks", "chunksNoCatch"}
\* cli.flags.concurrency
FlagValue(mode, flag) == IF flag = <<>> THEN DefaultConcurrency(mode) ELSE flag[1]

\* files.slice(a, b) of n files, as the set of the files 1..n it holds: a
\* negative index counts from the end
SliceIndex(n, k) == IF k < 0 THEN (IF n + k < 0 THEN 0 ELSE n + k) ELSE Min(k, n)
Slice(n, a, b) == {f \in 1..n : f > SliceIndex(n, a) /\ f <= SliceIndex(n, b)}

NoChunker == [pc |-> "idle", n |-> 0, concurrency |-> 0, i |-> 0, chunks |-> <<>>]
ChunkInit == chunker = NoChunker

\* the glob has matched n files: `No files found` for none, else the loop
\* starts with i = 0
ChunkStart(mode, flag, n) ==
    /\ chunker.pc = "idle"
    /\ chunker' = [pc |-> IF n = 0 THEN "nofiles" ELSE "chunking", n |-> n,
                   concurrency |-> FlagValue(mode, flag), i |-> 0, chunks |-> <<>>]
    /\ UNCHANGED <<regVars, genVars, strmVars, batchVars, cli>>

\* one iteration: chunks.push(files.slice(i, i + concurrency)); i += concurrency
ChunkLoop ==
    /\ chunker.pc = "chunking"
    /\ chunker.i < chunker.n
    /\ Len(chunker.chunks) < MaxIterations
    /\ chunker' = [chunker EXCEPT
                      !.chunks = Append(@, Slice(chunker.n, chunker.i, chunker.i + chunker.concurrency)),
                      !.i = @ + chunker.concurrency]
    /\ UNCHANGED <<regVars, genVars, strmVars, batchVars, cli>>

\* the loop condition i < files.length is false
ChunkExit ==
    /\ chunker.pc = "chunking"
    /\ ~(chunker.i < chunker.n)
    /\ chunker' = [chunker EXCEPT !.pc = "chunked"]
    /\ UNCHANGED <<regVars, genVars, strmVars, batchVars, cli>>

ChunkNext ==
    \/ \E mode \in ChunkModes, flag \in ChunkFlags, n \in 0..MaxFiles : ChunkStart(mode, flag, n)
    \/ ChunkLoop
    \/ ChunkExit

\* ========================================================================
\* Error classes (utils/errors)
\* ========================================================================
SpecificErrors == {"ConfigurationError", "GenerationError", "ParsingError"}

\* `class c extends ...`: <<the superclass>>, <<>> for Error itself; the
\* errors of the libraries and the built-in TypeError extend Error
SuperClass(c) ==
    IF c \in SpecificErrors THEN <<"MDXAIError">>
    ELSE IF c = "Error" THEN <<>>
    ELSE <<"Error">>

\* c.prototype and the prototypes above it
RECURSIVE PrototypeChain(_)
PrototypeChain(c) ==
    IF SuperClass(c) = <<>> THEN {c} ELSE {c} \cup PrototypeChain(SuperClass(c)[1])

\* a constructor that leaves the prototype of the new object as `new`
\* made it
PrototypeOfNewTarget(c) == c

\* the prototype of the object `new c(message)` returns: the constructor of
\* MDXAIError, which every subclass runs through super(), ends with
\* Object.setPrototypeOf(this, MDXAIError.prototype)
PrototypeOfNew(c) == IF "MDXAIError" \in PrototypeChain(c) THEN "MDXAIError" ELSE c

\* `error instanceof cls` for an error created by `new kind(message)`
InstanceOf(kind, cls) == cls \in PrototypeChain(PrototypeOfNew(kind))

\* ========================================================================
\* The mdxai command: cli()
\* ========================================================================
\* argv: prompt <<>> when the argument is missing; model "" and type ""
\* when the option is not given
Argv(prompt, model, type, recursive, depth) ==
    [prompt |-> prompt, model |-> model, type |-> type, recursive |-> recursive, depth |-> depth]
Argvs ==
    { Argv(p, m, t, r, d) : p \in {<<>>, <<"testing">>}, m \in ModelOptions,
                            t \in {"", "TechArticle"}, r \in BOOLEAN, d \in DepthValues }

\* exit: <<>> or <<the code process.exit was called with>>; branch: the
\* branch of the catch block taken
IdleCli == [pc |-> "idle", stdout |-> <<>>, stderr |-> <<>>, exit |-> <<>>, branch |-> ""]
CliInit == cli = IdleCli

\* the formatError of the command, and the line the catch block writes
MissingArgumentLine == "Error: Missing required argument 'prompt'"
SpecificLine(kind) == kind \o ": message"
GenericLine(kind) == "Error: Failed to generate MDX content: message"
GeneratingLine == "Generating MDX"
ErrorLines == {MissingArgumentLine} \cup {SpecificLine(k) : k \in SpecificErrors}
                  \cup {GenericLine("Error")}

\* the options the action hands to generateMDX
CliOptions(argv) ==
    Options(argv.prompt[1], IF argv.type = "" THEN "Article" ELSE argv.type,
            getConfigWith(env, FALSE, argv.model).defaultModel,
            argv.recursive, argv.depth, FALSE)

\* program.parseAsync(process.argv) without the prompt argument: the
\* exitOverride callback runs
CliMissingArgument(argv) ==
    /\ cli.pc = "idle" /\ isNodeRuntime(env)
    /\ argv.prompt = <<>>
    /\ cli' = [cli EXCEPT !.pc = "exited", !.stderr = Append(@, MissingArgumentLine),
                          !.exit = <<1>>]
    /\ UNCHANGED <<regVars, genVars, strmVars, batchVars, chunker>>

\* the action runs up to `await generateMDX(...)`
CliRun(argv) ==
    /\ cli.pc = "idle" /\ isNodeRuntime(env)
    /\ argv.prompt # <<>>
    /\ Call(CliOptions(argv))
    /\ cli' = [cli EXCEPT !.pc = "awaiting"]
    /\ UNCHANGED <<regVars, strmVars, batchVars, chunker>>

\* generateMDX resolved: the rest of the try block
CliResolved ==
    /\ cli.pc = "awaiting" /\ outcome # <<>> /\ outcome[1].status = "resolved"
    /\ cli' = [cli EXCEPT !.pc = "done", !.stderr = Append(@, GeneratingLine),
                          !.stdout = Append(@, outcome[1].content)]
    /\ UNCHANGED <<regVars, genVars, strmVars, batchVars, chunker>>

\* a catch block that reports the error and lets the process go on
CliRejectedNoExit ==
    /\ cli.pc = "awaiting" /\ outcome # <<>> /\ outcome[1].status = "rejected"
    /\ cli' = [cli EXCEPT !.pc = "done", !.stderr = Append(@, GenericLine(outcome[1].error))]
    /\ UNCHANGED <<regVars, genVars, strmVars, batchVars, chunker>>

\* generateMDX rejected: the catch block
CliRejected ==
    /\ cli.pc = "awaiting" /\ outcome # <<>> /\ outcome[1].status = "rejected"
    /\ LET kind == outcome[1].error
           specific == \E c \in SpecificErrors : InstanceOf(kind, c)
       IN  cli' = [cli EXCEPT !.pc = "exited",
                              !.branch = IF specific THEN "specific" ELSE "generic",
                              !.stderr = Append(@, IF specific THEN SpecificLine(kind)
                                                   ELSE GenericLine(kind)),
                              !.exit = <<1>>]
    /\ UNCHANGED <<regVars, genVars, strmVars, batchVars, chunker>>

CliNext ==
    \/ \E argv \in Argvs : CliMissingArgument(argv)
    \/ \E argv \in Argvs : CliRun(argv)
    \/ Start
    \/ \E text \in OutlineTexts : OutlineReturns(text)
    \/ OutlineThrows
    \/ \E text \in GeneratedTexts, parsed \in AllParseResults : GenerateReturns(text, parsed)
    \/ GenerateThrows
    \/ CliResolved
    \/ CliRejected

\* ========================================================================
\* Specifications
\* ========================================================================
vars == <<fileSys, env, externals, proc, called, stack, outcome, backend, strm, sg, file, ret, batch,
          progress, cli, chunker>>

\* the registry: concurrent invocations and outside edits of the files,
\* with no generateMDX call
Init == RegInit /\ GenInit /\ StreamInit /\ BatchInit /\ CliInit /\ ChunkInit
Next ==
    \/ \E p \in Procs, n \in Names : Invoke(p, n)
    \/ \E p \in Procs : Exists(p)
    \/ \E p \in Procs : OpenForWrite(p)
    \/ \E p \in Procs : WriteData(p)
    \/ \E p \in Procs : ReadAndPrepare(p)
    \/ \E p \in Procs, v \in BackendValues : BackendReturns(p, v)
    \/ \E p \in Procs, err \in BackendThrows : BackendThrowsErr(p, err)
    \/ \E n \in Names, c \in SpecFiles : ExternalEdit(n, c)
Spec == Init /\ [][Next]_vars

\* the registry used by one caller at a time: caller 1 alone, the files
\* being edited from outside only between two invocations
Solo == 1
BetweenInvocations == proc[Solo].pc \in {"idle", "done"}
SoloNext ==
    \/ \E n \in Names : Invoke(Solo, n)
    \/ Exists(Solo)
    \/ OpenForWrite(Solo)
    \/ WriteData(Solo)
    \/ ReadAndPrepare(Solo)
    \/ \E v \in BackendValues : BackendReturns(Solo, v)
    \/ \E err \in BackendThrows : BackendThrowsErr(Solo, err)
    \/ \E n \in Names, c \in SpecFiles : BetweenInvocations /\ ExternalEdit(n, c)
SpecSolo == Init /\ [][SoloNext]_vars

\* one generateMDX call, with no registry invocation; every pending backend
\* call is answered and every continuation runs
InitGen ==
    /\ fileSys = [n \in Names |-> NoFile]
    /\ env \in Envs
    /\ externals = 0
    /\ proc = [p \in Procs |-> IdleProc]
    /\ GenInit
    /\ StreamInit
    /\ BatchInit
    /\ CliInit
    /\ ChunkInit
SpecGen == InitGen /\ [][GenNext]_vars /\ WF_vars(GenNext)

\* one run of a CLI over a batch of files
SpecBatch == InitGen /\ [][BatchNext]_vars

\* one streaming generateMDX call: the call's own steps are taken when
\* they can be; the backend stream may deliver, end, break or stall
SpecStream == InitGen /\ [][StreamNext]_vars /\ WF_vars(StreamProgram)

\* one run of the mdxai command around its generateMDX call
SpecCli == InitGen /\ [][CliNext]_vars /\ WF_vars(CliNext)

\* the chunking loop of one batch run
SpecChunks == InitGen /\ [][ChunkNext]_vars /\ WF_vars(ChunkNext)


\* ========================================================================
\* Properties
\* ========================================================================
Done(p) == proc[p].pc = "done"
ErrorSet(p) == proc[p].result["error"] # Absent
\* the backend call of the invocation did not resolve with a value, or
\* there was none
NoBackendValue(p) == proc[p].response = <<>>

\* C1: whatever the name, the file content and the backend outcome, an
\* invocation settles by resolving with a result object and never rejects;
\* when no backend value was obtained (a step failed) the result carries
\* `error`.
C1_RegistryNeverThrows ==
    \A p \in Procs :
        /\ ~proc[p].rejected
        /\ (Done(p) /\ NoBackendValue(p)) => ErrorSet(p)

\* the backend threw null: the inner catch failed itself, the outer one
\* turned that into a result
C1_Witness ==
    \E p \in Procs :
        /\ Done(p) /\ proc[p].calls = 1 /\ ~proc[p].rejected
        /\ proc[p].result["error"] = Str("Failed to process AI function: " \o NullMessage)

\* C2: a call with recursive=true and depth >= 1 makes at most one outline
\* call and at most one content generation call, every nested call runs
\* with recursive=false, and the call settles.
RecursiveRun == called # <<>> /\ called[1].recursive /\ called[1].depth >= 1
C2_RecursionTerminates ==
    /\ [](RecursiveRun =>
              /\ outlineCalls <= 1
              /\ genCalls <= 1
              /\ \A i \in 2..Len(stack) : ~stack[i].opts.recursive)
    /\ (RecursiveRun ~> (outcome # <<>>))

C2_Witness ==
    /\ RecursiveRun
    /\ outcome # <<>> /\ outcome[1].status = "resolved"
    /\ outlineCalls = 1 /\ genCalls = 1

\* C3: when the outline call returned non-empty text that is not JSON, the
\* call has failed with a ParsingError and the outline call is the only
\* backend call.
MalformedOutlineTexts == {"Here is your outline:"}
C3_MalformedOutline ==
    \A i \in 1..Len(backend) :
        (backend[i].kind = "outline" /\ backend[i].state = "text"
            /\ backend[i].text \in MalformedOutlineTexts)
        => /\ outcome = <<Failure("ParsingError")>>
           /\ Len(backend) = 1

C3_Witness ==
    /\ called # <<>> /\ called[1].recursive
    /\ Len(backend) = 1 /\ backend[1].text \in MalformedOutlineTexts
    /\ outcome = <<Failure("ParsingError")>>


\* ------------------------------------------------------------------------
\* Registry: shape selection, result shape, file creation, backend calls
\* ------------------------------------------------------------------------
\* the environment carries an API key or a gateway URL
Credentials == env.node /\ (env.OPENAI_API_KEY \/ env.AI_GATEWAY)
\* the file was read and decoded into a metadata map
Parsed(p) == proc[p].mdxData # <<>>
Meta(p) == proc[p].mdxData[1]
\* the model field is absent or a string
ModelUsable(p) == Meta(p).model.t \in {"absent", "string"}

\* C4: for every specification that reaches it, shape selection yields one
\* of object / array / no-schema - never an error result, never no shape -
\* and no-schema exactly when the specification has no schema.
C4_ShapeSelection ==
    \A p \in Procs :
        (Done(p) /\ Parsed(p) /\ Credentials /\ ModelUsable(p))
        => /\ proc[p].request # <<>>
           /\ proc[p].request[1].output \in {"object", "array", "no-schema"}
           /\ (proc[p].request[1].output = "no-schema") <=> (Meta(p).schema = <<>>)

\* C5: when the schema has top-level type array and the backend returned an
\* array, the result has `items` holding that array and no `content`.
C5_ArrayShape ==
    \A p \in Procs :
        (Done(p) /\ Parsed(p) /\ SchemaTypeOf(Meta(p)) = "array"
            /\ proc[p].response # <<>> /\ proc[p].response[1].t = "array")
        => /\ proc[p].result["items"] = proc[p].response[1]
           /\ proc[p].result["content"] = Absent

\* the fixed default template: a model, a system prompt and an object
\* schema whose only property is the string `content`
IsDefaultTemplate(f) ==
    /\ f.kind = "fm"
    /\ f.data[1].model = Str("gpt-4o")
    /\ f.data[1].system.t = "string"
    /\ f.data[1].schema # <<>>
    /\ LET sch == f.data[1].schema[1]
       IN  /\ sch.type = "object" /\ sch.hasProps
           /\ Len(sch.props) = 1
           /\ sch.props[1].key = "content"
           /\ sch.props[1].schema.type = "string"

\* the backend resolved with a value the request's schema accepts
ConformingReply(p) ==
    /\ proc[p].response # <<>>
    /\ proc[p].request[1].schema # <<>>
    /\ Accepts(proc[p].request[1].schema[1], proc[p].response[1])

C7_NeverOverwrites ==
    [][\A p \in Procs :
          (proc[p].pc = "open" /\ proc'[p].pc = "write")
          => fileSys[proc[p].name] = NoFile]_vars

\* C8: without outside edits, every invocation that found the file absent
\* reads the complete default template and goes on to generation, and when
\* all callers are done the file holds the default template.
C8_BenignCreationRace ==
    externals = 0 =>
        /\ \A p \in Procs :
              (proc[p].found = "absent" /\ proc[p].pc \in {"generate", "done"})
              => /\ proc[p].content = DEFAULT_FRONTMATTER
                 /\ Credentials => proc[p].calls = 1
        /\ (\A p \in Procs : Done(p) /\ proc[p].found = "absent")
           => \A n \in Names : fileSys[n] = DEFAULT_FRONTMATTER

\* C9: an invocation makes at most one backend call: exactly one when the
\* file was read and parsed, credentials are configured, the model is
\* usable and the schema type is accepted; none otherwise, and then the
\* result carries `error`.
Prepared(p) ==
    /\ Parsed(p)
    /\ Credentials
    /\ ModelUsable(p)
    /\ SchemaTypeOf(Meta(p)) \in {"none", "object", "array"}
C9_OneBackendCall ==
    \A p \in Procs :
        /\ proc[p].calls <= 1
        /\ Done(p) => /\ (proc[p].calls = 1) <=> Prepared(p)
                      /\ (proc[p].calls = 0) => ErrorSet(p)

\* both cases: a caller done after its one call, another done without any
\* because its file has no metadata block
C9_Witness ==
    \E p, q \in Procs :
        /\ Done(p) /\ proc[p].calls = 1 /\ proc[p].response # <<>>
        /\ Done(q) /\ proc[q].calls = 0 /\ proc[q].content.kind = "nofm"
        /\ proc[q].result["error"] = Str("Invalid MDX file: No frontmatter found")

\* C10: a specification whose metadata has no `model` is a hard failure:
\* the result carries `error` and no backend call is made.
C10_ModelRequired ==
    \A p \in Procs :
        (Done(p) /\ Parsed(p) /\ Meta(p).model.t = "absent")
        => /\ ErrorSet(p)
           /\ proc[p].calls = 0


\* ------------------------------------------------------------------------
\* Recursive Outline Generator: mode selection, outline failures, ordering
\* ------------------------------------------------------------------------
\* C11: a call with recursive=true and depth <= 0 makes no outline call; it
\* produces its content by one direct generation call, as recursive=false
\* does.
C11_DepthZeroIsDirect ==
    (called # <<>> /\ called[1].recursive /\ called[1].depth <= 0)
    => /\ outlineCalls = 0
       /\ (outcome # <<>> /\ outcome[1].status = "resolved") => genCalls = 1

\* C12: when the outline call returns empty text, the recursive call fails
\* with a GenerationError and the outline call is the only backend call.
C12_EmptyOutlineText ==
    \A i \in 1..Len(backend) :
        (backend[i].kind = "outline" /\ backend[i].state = "text" /\ backend[i].text = "")
        => /\ outcome = <<Failure("GenerationError")>>
           /\ Len(backend) = 1

\* C13: the backend calls of a run are strictly sequential - a call starts
\* only when every earlier call (the outline call before the expansion
\* call) has completed - and the run returns its synthesized result only
\* when no call is pending.
C13_OutlineThenExpansionThenSynthesis ==
    /\ \A i, j \in 1..Len(backend) : i < j => backend[i].state # "pending"
    /\ outcome # <<>> => \A i \in 1..Len(backend) : backend[i].state # "pending"
    /\ (outcome # <<>> /\ outcome[1].status = "resolved")
       => /\ backend[Len(backend)].kind = "generate"
          /\ backend[Len(backend)].state = "text"

C13_Witness ==
    /\ RecursiveRun
    /\ Len(backend) = 2
    /\ backend[1].kind = "outline" /\ backend[1].state = "text"
    /\ backend[2].kind = "generate" /\ backend[2].text = "# Other\nMore text"
    /\ outcome # <<>> /\ outcome[1].status = "resolved"


\* ------------------------------------------------------------------------
\* Recursive Outline Generator: the returned document
\* ------------------------------------------------------------------------
Resolved == outcome # <<>> /\ outcome[1].status = "resolved"
\* the content generation call of the run returned a non-empty text
ContentGenerated ==
    /\ backend # <<>>
    /\ backend[Len(backend)].kind = "generate"
    /\ backend[Len(backend)].state = "text"
    /\ backend[Len(backend)].text # ""

\* C14: every successful run returns a document whose metadata has $type
\* equal to @type, $context equal to @context, and a metadata sub-map
\* (keywords, category, properties.version, properties.generator) derived
\* from the requested type and the selected model, whatever the parsed
\* content carried under those keys.
C14_SynthesizedMetadata ==
    Resolved =>
        /\ outcome[1].ast # <<>>
        /\ LET data == outcome[1].ast[1].data
               type == called[1].type
           IN  /\ data["$type"] = <<"https://schema.org/" \o type>>
               /\ data["@type"] = data["$type"]
               /\ data["$context"] = <<"https://schema.org">>
               /\ data["@context"] = data["$context"]
               /\ data["metadata"] =
                    <<Metadata(<<ToLowerCase(type), "mdx", "content">>, type, "1.0.0",
                               "mdxai-" \o SelectedModelFor(called[1]))>>

C14_Witness ==
    /\ Resolved
    /\ called[1].type = "TechArticle"
    /\ called[1].model = "@cf/meta/llama-3"
    /\ outcome[1].ast # <<>>
    /\ outcome[1].ast[1].data["title"] = <<"TechArticle about testing">>
    /\ outcome[1].ast[1].data["metadata"][1].properties.generator = "mdxai-@cf/meta/llama-3"

\* C15: once the content has been generated, the run succeeds and returns
\* a document with a body - the parsed body nodes or, when the content
\* does not parse into body nodes, a single text node holding the content -
\* in direct and in recursive mode alike.
C15_UnparsedContentIsWrapped ==
    ContentGenerated =>
        /\ Resolved
        /\ outcome[1].ast # <<>>
        /\ \/ outcome[1].ast[1].children = BodyNodes(outcome[1].content)
           \/ outcome[1].ast[1].children = <<TextNode(outcome[1].content)>>

\* C16: in a direct run the body of the returned document is the generated
\* text: its heading nodes are the headings of the text the backend
\* returned.
C16_BodyIsGeneratedText ==
    (Resolved /\ ~called[1].recursive)
    => /\ outcome[1].ast # <<>>
       /\ HeadingsOf(outcome[1].ast[1].children) = HeadingsOfText(backend[Len(backend)].text)


\* ------------------------------------------------------------------------
\* Streaming generateMDX: the stream timeout
\* ------------------------------------------------------------------------
\* the stream went silent for good after some chunks and the timer fired
StalledAfterTimeout == strm.state = "stalled" /\ strm.delivered >= 1 /\ sg.timedOut

\* C17: when the stream stalls after some chunks, then once the timeout has
\* fired the call eventually returns, and the text it returns is built from
\* the chunks accumulated before the timeout.
C17_StalledStreamReturns ==
    /\ StalledAfterTimeout ~> (ret # <<>> /\ ret[1].status = "resolved")
    /\ []((StalledAfterTimeout /\ ret # <<>> /\ ret[1].status = "resolved")
            => /\ ret[1].text.extra = <<>>
               /\ Len(ret[1].text.chunks) = strm.delivered)

\* C18: a run in which the stream timeout fired does not return like a run
\* whose stream completed: the call settles as a timeout failure.
C18_TimeoutIsSurfaced ==
    (ret # <<>> /\ sg.timedOut /\ ret[1].error \notin {"FsError", "StreamError"})
    => /\ ret[1].status = "rejected"
       /\ ret[1].error = "TimeoutError"

\* C19: when a filepath is given and the call returns successfully, the
\* written file holds exactly the returned text.
C19_FileEqualsReturnedText ==
    (ret # <<>> /\ ret[1].status = "resolved" /\ sg.filepath)
    => file = <<ret[1].text>>


\* ------------------------------------------------------------------------
\* Batch processing: the admission gate
\* ------------------------------------------------------------------------
\* C20: during batch processing the number of generateMDX calls in flight
\* never exceeds the configured concurrency (or its default).
C20_ConcurrencyLimit ==
    /\ InFlight <= batch.concurrency
    /\ Cardinality(Running) <= batch.concurrency

\* the second slice at the limit: two calls in flight after the files of
\* the first slice were settled, one of them by a failure
C20_Witness ==
    /\ batch.mode = "chunks"
    /\ batch.concurrency = 2
    /\ InFlight = 2
    /\ Len(batch.status) = 4
    /\ batch.status[1] = "done" /\ batch.status[2] = "failed"
    /\ batch.status[3] = "generating" /\ batch.status[4] = "generating"

\* ------------------------------------------------------------------------
\* The mdxai command
\* ------------------------------------------------------------------------
GenerationFailed == outcome # <<>> /\ outcome[1].status = "rejected"
GenerationSucceeded == outcome # <<>> /\ outcome[1].status = "resolved"
ErrorReported == \E i \in 1..Len(cli.stderr) : cli.stderr[i] \in ErrorLines

\* C21: when generation fails or the prompt argument is missing, cli()
\* writes an error message to stderr, writes nothing to stdout and calls
\* process.exit(1); when generation succeeds it writes the content to
\* stdout and never calls process.exit
C21_ExitOnFailureOnly ==
    /\ [](cli.pc = "exited" => /\ GenerationFailed \/ called = <<>>
                               /\ ErrorReported
                               /\ cli.stdout = <<>>
                               /\ cli.exit = <<1>>)
    /\ [](cli.pc = "done" => /\ GenerationSucceeded
                             /\ cli.stdout = <<outcome[1].content>>
                             /\ cli.exit = <<>>)
    /\ [](cli.pc \in {"idle", "awaiting"} => cli.stdout = <<>> /\ cli.exit = <<>>)
    /\ (cli.pc = "awaiting" /\ GenerationFailed) ~> (cli.pc = "exited")
    /\ (cli.pc = "awaiting" /\ GenerationSucceeded) ~> (cli.pc = "done")
C21_Witness ==
    /\ cli.pc = "exited" /\ GenerationFailed
    /\ outcome[1].error = "GenerationError"
    /\ cli.exit = <<1>> /\ cli.stdout = <<>> /\ ErrorReported

\* ------------------------------------------------------------------------
\* Configuration of a generateMDX call
\* ------------------------------------------------------------------------
\* neither an API key nor a gateway URL, in the environment or in the
\* options of the call
Unconfigured ==
    /\ called # <<>>
    /\ ~called[1].aiConfig
    /\ ~(isNodeRuntime(env) /\ (env.OPENAI_API_KEY \/ env.AI_GATEWAY))

\* C22: a generateMDX call with neither an API key nor a gateway base URL
\* configured fails with a ConfigurationError, and no backend call is made
C22_UnconfiguredFailsFirst ==
    /\ [](Unconfigured => /\ backend = <<>>
                          /\ outcome # <<>> => /\ outcome[1].status = "rejected"
                                               /\ outcome[1].error = "ConfigurationError")
    /\ Unconfigured ~> (outcome # <<>>)
C22_Witness ==
    /\ Unconfigured /\ backend = <<>>
    /\ outcome # <<>> /\ outcome[1].error = "ConfigurationError"

\* ------------------------------------------------------------------------
\* The output shape of an invocation
\* ------------------------------------------------------------------------
\* C23: the shape sent to the backend is the shape the result is formatted
\* by: the request's output is `array` exactly when the schema of the
\* specification has type array, whatever else the schema holds
C23_OneShape ==
    \A p \in Procs :
        (Parsed(p) /\ proc[p].request # <<>>)
        => ((proc[p].request[1].output = "array") <=> (SchemaTypeOf(Meta(p)) = "array"))

\* ------------------------------------------------------------------------
\* The outline of a recursive generation
\* ------------------------------------------------------------------------
\* the outline the reply i of the backend was decoded to: <<>> when reply i
\* is not a decodable, truthy outline
OutlineGenerated(i) ==
    IF backend[i].kind = "outline" /\ backend[i].state = "text"
          /\ generateOutline(backend[i].text).thrown = ""
          /\ Truthy(generateOutline(backend[i].text).outline[1])
    THEN generateOutline(backend[i].text).outline
    ELSE <<>>

\* C24: when a recursive generation succeeds through a generated outline,
\* the `outline` field of the returned result holds that outline
C24_OutlineReturned ==
    \A i \in 1..Len(backend) :
        (GenerationSucceeded /\ called[1].recursive /\ OutlineGenerated(i) # <<>>)
        => outcome[1].outline = OutlineGenerated(i)

\* ------------------------------------------------------------------------
\* Error classes
\* ------------------------------------------------------------------------
\* C25: an error created as ConfigurationError, GenerationError or
\* ParsingError is an instance of its own class and of MDXAIError and of
\* neither of the other two classes, so the command, which branches on the
\* class of the error generateMDX rejected with, takes the branch of the
\* specific errors for it
C25_ErrorClassRecognised ==
    (GenerationFailed /\ outcome[1].error \in SpecificErrors)
    => /\ InstanceOf(outcome[1].error, outcome[1].error)
       /\ InstanceOf(outcome[1].error, "MDXAIError")
       /\ \A c \in SpecificErrors \ {outcome[1].error} : ~InstanceOf(outcome[1].error, c)
       /\ cli.pc = "exited" => cli.branch = "specific"

\* ------------------------------------------------------------------------
\* The default model
\* ------------------------------------------------------------------------
\* C26: when the caller supplies no model, the model written into the
\* frontmatter of the generated content is the AI_MODEL environment
\* variable when it is set and gpt-4o-mini otherwise
C26_DefaultModel ==
    (GenerationSucceeded /\ called[1].model = "")
    => outcome[1].content.model = IF env.AI_MODEL # "" THEN env.AI_MODEL ELSE "gpt-4o-mini"

\* ------------------------------------------------------------------------
\* Schema translation
\* ------------------------------------------------------------------------
\* zod is the structural translation of schema: an array validator for an
\* array node, over the translation of its item type when it declares one;
\* an object validator for an object node, over its declared properties;
\* the scalar validators for the scalar types; accept-anything for nothing
\* but an untyped or unrecognised node
RECURSIVE Structural(_, _)
Structural(schema, zod) ==
    IF schema.type = "array"
    THEN /\ zod.z = "array"
         /\ schema.items # <<>> => Structural(schema.items[1], zod.item[1])
    ELSE IF schema.type = "object"
    THEN /\ zod.z = "object"
         /\ Len(zod.shape) = Len(schema.props)
         /\ \A i \in 1..Len(schema.props) :
               /\ zod.shape[i].key = schema.props[i].key
               /\ Structural(schema.props[i].schema, zod.shape[i].zod)
    ELSE IF schema.type \in {"string", "number", "boolean"}
    THEN zod.z = schema.type
    ELSE zod.z = "any"

\* C27: the validator an invocation sends with its request is the
\* structural translation of the schema of its specification; only untyped
\* or unrecognised nodes are widened to accept-anything
C27_StructuralTranslation ==
    \A p \in Procs :
        (Parsed(p) /\ proc[p].request # <<>> /\ proc[p].request[1].schema # <<>>)
        => Structural(Meta(p).schema[1], proc[p].request[1].schema[1])

\* ------------------------------------------------------------------------
\* Progress reports
\* ------------------------------------------------------------------------
StrictlyIncreasing(seq) == \A i \in 1..(Len(seq) - 1) : seq[i] < seq[i + 1]
Deliveries(value) == Cardinality({i \in 1..Len(progress) : progress[i] = value})

\* C28: the progress values delivered to onProgress are strictly
\* increasing and start at 10; 100 is delivered exactly once and last when
\* the call succeeds, and never when it fails - in direct and in recursive
\* mode
C28_ProgressReports ==
    /\ StrictlyIncreasing(progress)
    /\ progress # <<>> => progress[1] = 10
    /\ GenerationSucceeded => /\ Deliveries(100) = 1
                              /\ progress[Len(progress)] = 100
    /\ ~GenerationSucceeded => Deliveries(100) = 0
C28_Witness ==
    /\ GenerationSucceeded /\ called[1].recursive
    /\ \E i \in 1..Len(backend) : OutlineGenerated(i) # <<>>
    /\ progress = <<10, 20, 100>>

\* ------------------------------------------------------------------------
\* One configuration per call
\* ------------------------------------------------------------------------
\* C29: when the caller supplies the credentials in options.aiConfig, so
\* that the validation at the top of the call passes, no later step of the
\* call - the outline step, the nested call - fails with a configuration
\* error
C29_OneConfiguration ==
    (called # <<>> /\ called[1].aiConfig /\ outcome # <<>>)
    => outcome[1].error # "ConfigurationError"

\* ------------------------------------------------------------------------
\* The partition into chunks
\* ------------------------------------------------------------------------
\* the chunks file f belongs to
ChunksOf(f) == {k \in 1..Len(chunker.chunks) : f \in chunker.chunks[k]}

\* C30: for every value of the concurrency flag, zero and negative values
\* included, and every list of matched files the chunking terminates: the
\* partition is finite - never more chunks than files - and when the loop
\* is left every matched file belongs to exactly one chunk
C30_ChunkingTerminates ==
    /\ [](Len(chunker.chunks) <= chunker.n)
    /\ [](chunker.pc = "chunked" => \A f \in 1..chunker.n : Cardinality(ChunksOf(f)) = 1)
    /\ (chunker.pc = "chunking") ~> (chunker.pc = "chunked")
====
